---- MODULE Spec2Model ----
(***************************************************************************)
(* Model of two UI units of matrix-react-sdk:                              *)
(*   - MessageEditHistoryDialog (src/unnamed/part_000): pagination of a    *)
(*     message's edit history through client.relations;                    *)
(*   - usePlainTextListeners (src/unnamed/part_001): the plain-text        *)
(*     composer's input / paste / key-down handlers.                       *)
(* The two units share no state; each has its own specification            *)
(* (DialogSpec, ComposerSpec) over its own variables.                      *)
(***************************************************************************)
EXTENDS Integers, Sequences, FiniteSets, TLC

(***************************************************************************)
(* Bounds of the dialog model.                                             *)
(***************************************************************************)
\* relations requests issued over the life of one dialog instance
MaxFetches == 3
\* events in one page of a relations response
MaxPage == 2
\* events accumulated in the dialog state
MaxEvents == 2
\* pending (unsent) events in the room
MaxPending == 1

\* identifiers of the edit events the server may return
EventIds == 1..2

\* JavaScript null and undefined
Null == "<null>"
Undefined == "<undefined>"

\* nextBatch values a relations response may carry: absent, null, or a token
\* (the token is an opaque string of the server's choosing, "" included)
ResponseTokens == {Undefined, Null, "", "t1"}

\* values of opts.from
FromValues == {Undefined, "", "t1"}

\* JavaScript truthiness of a string | null | undefined value
Truthy(v) == v # Null /\ v # Undefined /\ v # ""

\* v ?? d
Coalesce(v, d) == IF v = Null \/ v = Undefined THEN d ELSE v

(***************************************************************************)
(* Events.                                                                 *)
(***************************************************************************)
RoomRedaction == "m.room.redaction"
RoomMessage == "m.room.message"

\* a pending (not yet sent) event of the room
PendingEvents == [type : {RoomRedaction, RoomMessage}, assoc : EventIds]

\* the value of an event's local-redaction mark when it has none
NotRedacted == [type |-> "<none>", assoc |-> 0]

\* an edit event as the relations API hands it over: not locally redacted
FreshEvent(id) == [id |-> id, redactedBy |-> NotRedacted]

RECURSIVE SeqsUpTo(_, _)
SeqsUpTo(S, n) ==
    IF n = 0 THEN {<<>>}
    ELSE LET shorter == SeqsUpTo(S, n - 1)
         IN  shorter \cup {Append(s, x) : s \in {t \in shorter : Len(t) = n - 1}, x \in S}

\* the pages a relations response may carry
Pages == SeqsUpTo({FreshEvent(i) : i \in EventIds}, MaxPage)

\* the original (base) event, when the response carries it
OriginalEventId == 9

\* the errors client.relations may throw: a MatrixError with an errcode, or
\* an error without errcode (a connection error)
M_UNRECOGNIZED == "M_UNRECOGNIZED"
M_UNKNOWN == "M_UNKNOWN"
Errors == [errcode : {M_UNRECOGNIZED, M_UNKNOWN, Undefined}]
NoError == [errcode |-> Null, isNull |-> TRUE]

\* client.getRoom(roomId): null, or a room with its pending events
NoRoom == [found |-> FALSE, pendingEvents |-> <<>>]
Room(pendingEvents) == [found |-> TRUE, pendingEvents |-> pendingEvents]

VARIABLES
    \* ---- MessageEditHistoryDialog ----
    originalEvent,  \* state.originalEvent: 0 (null) or an event id
    error,          \* state.error: NoError (null) or the error caught
    events,         \* state.events
    nextBatch,      \* state.nextBatch: Null or a token
    isLoading,      \* state.isLoading
    mounted,        \* componentDidMount has run
    inflight,       \* relations requests awaiting their response, by opts.from
    issued,         \* number of client.relations calls made so far
    room,           \* client.getRoom(roomId): NoRoom or Room(pending events)
    last            \* the handler that ran last, with its input and outcome

dvars == <<originalEvent, error, events, nextBatch, isLoading, mounted,
           inflight, issued, room, last>>

VARIABLES
    \* ---- usePlainTextListeners ----
    editor,           \* the pieces of markup in the editor div
    content,          \* the content state of the hook
    ctrlEnterToSend,  \* the setting MessageComposerInput.ctrlEnterToSend
    IS_MAC,           \* the platform
    hasOnChange,      \* an onChange callback was given
    hasOnSend,        \* an onSend callback was given
    onChangeCalls,    \* the arguments of the onChange calls of the last handler
    onSendCalls,      \* the number of onSend calls of the last handler
    clast             \* the handler that ran last, with its event

cvars == <<editor, content, ctrlEnterToSend, IS_MAC, hasOnChange, hasOnSend,
           onChangeCalls, onSendCalls, clast>>

dstate == <<originalEvent, error, events, nextBatch, isLoading>>

InFlightCount == inflight[Undefined] + inflight[""] + inflight["t1"]

(***************************************************************************)
(* MessageEditHistoryDialog                                                *)
(***************************************************************************)
\* BailOut without the test for exhaustion
BailOutBackwardsOnly(backwards) == backwards

\* BailOut testing the cursor against null instead of for truthiness
BailOutNullOnly(backwards) == backwards \/ (nextBatch = Null /\ ~isLoading)

\* the early-return test of loadMoreEdits
BailOut(backwards) == backwards \/ (~Truthy(nextBatch) /\ ~isLoading)

\* opts.from
OptsFrom == Coalesce(nextBatch, Undefined)

\* loadMoreEdits, from its entry to the await of client.relations
loadMoreEdits(backwards) ==
    IF BailOut(backwards)
    THEN /\ last' = [op |-> "loadMoreEdits", backwards |-> backwards, ret |-> "false"]
         /\ UNCHANGED <<dstate, inflight, issued>>
    ELSE /\ issued < MaxFetches
         /\ inflight' = [inflight EXCEPT ![OptsFrom] = @ + 1]
         /\ issued' = issued + 1
         /\ last' = [op |-> "loadMoreEdits", backwards |-> backwards, ret |-> "pending",
                     from |-> OptsFrom]
         /\ UNCHANGED dstate

\* FindPendingRedaction without the test of the pending event's type
RECURSIVE FindPendingAnyType(_, _)
FindPendingAnyType(pendingEvents, id) ==
    IF pendingEvents = <<>> THEN NotRedacted
    ELSE IF Head(pendingEvents).assoc = id
         THEN Head(pendingEvents)
         ELSE FindPendingAnyType(Tail(pendingEvents), id)

\* pendingEvents.find(...) for the event with the given id: the first
\* pending redaction whose associated id is the event's, or NotRedacted
RECURSIVE FindPendingRedaction(_, _)
FindPendingRedaction(pendingEvents, id) ==
    IF pendingEvents = <<>> THEN NotRedacted
    ELSE IF Head(pendingEvents).type = RoomRedaction /\ Head(pendingEvents).assoc = id
         THEN Head(pendingEvents)
         ELSE FindPendingRedaction(Tail(pendingEvents), id)

\* the events of newEvents after locallyRedactEventsIfNeeded has run on them
locallyRedactEventsIfNeeded(newEvents) ==
    IF room = NoRoom THEN newEvents
    ELSE [i \in 1..Len(newEvents) |->
            LET pendingRedaction == FindPendingRedaction(room.pendingEvents, newEvents[i].id)
            IN  IF pendingRedaction # NotRedacted
                THEN [newEvents[i] EXCEPT !.redactedBy = pendingRedaction]
                ELSE newEvents[i]]

\* the value the setState callback resolves the promise with
hasMoreResults(batch) == Truthy(batch)

\* RelationsResolved putting the new page in front of the accumulated events
RelationsResolvedPrepending(from, result) ==
    /\ inflight[from] > 0
    /\ Len(events) + Len(result.events) <= MaxEvents
    /\ inflight' = [inflight EXCEPT ![from] = @ - 1]
    /\ originalEvent' = IF originalEvent # 0 THEN originalEvent ELSE result.originalEvent
    /\ events' = locallyRedactEventsIfNeeded(result.events) \o events
    /\ nextBatch' = Coalesce(result.nextBatch, Null)
    /\ isLoading' = FALSE
    /\ last' = [op |-> "resolved", result |-> result,
                value |-> hasMoreResults(nextBatch')]
    /\ UNCHANGED <<error, mounted, issued, room>>

\* the continuation of loadMoreEdits after client.relations has resolved
RelationsResolved(from, result) ==
    /\ inflight[from] > 0
    /\ Len(events) + Len(result.events) <= MaxEvents
    /\ inflight' = [inflight EXCEPT ![from] = @ - 1]
    /\ originalEvent' = IF originalEvent # 0 THEN originalEvent ELSE result.originalEvent
    /\ events' = events \o locallyRedactEventsIfNeeded(result.events)
    /\ nextBatch' = Coalesce(result.nextBatch, Null)
    /\ isLoading' = FALSE
    /\ last' = [op |-> "resolved", result |-> result,
                value |-> hasMoreResults(nextBatch')]
    /\ UNCHANGED <<error, mounted, issued, room>>

\* RelationsRejected that also ends the loading state
RelationsRejectedEndsLoading(from, err) ==
    /\ inflight[from] > 0
    /\ inflight' = [inflight EXCEPT ![from] = @ - 1]
    /\ error' = err
    /\ isLoading' = FALSE
    /\ last' = [op |-> "rejected", thrown |-> err, reason |-> err]
    /\ UNCHANGED <<originalEvent, events, nextBatch, mounted, issued, room>>

\* the continuation of loadMoreEdits after client.relations has thrown:
\* setState({ error }, () => reject(error))
RelationsRejected(from, err) ==
    /\ inflight[from] > 0
    /\ inflight' = [inflight EXCEPT ![from] = @ - 1]
    /\ error' = err
    /\ last' = [op |-> "rejected", thrown |-> err, reason |-> err]
    /\ UNCHANGED <<originalEvent, events, nextBatch, isLoading, mounted, issued, room>>

\* render testing isLoading before error
renderLoadingFirst ==
    IF isLoading THEN "Spinner"
    ELSE IF error # NoError
    THEN IF error.errcode = M_UNRECOGNIZED THEN "unsupported"
         ELSE IF Truthy(error.errcode) THEN "generic"
         ELSE "unreachable"
    ELSE "ScrollPanel"

\* render showing the scroll panel while the first page is loading
renderNoSpinner ==
    IF error # NoError
    THEN IF error.errcode = M_UNRECOGNIZED THEN "unsupported"
         ELSE IF Truthy(error.errcode) THEN "generic"
         ELSE "unreachable"
    ELSE "ScrollPanel"

\* what render puts in the dialog
render ==
    IF error # NoError
    THEN IF error.errcode = M_UNRECOGNIZED THEN "unsupported"
         ELSE IF Truthy(error.errcode) THEN "generic"
         ELSE "unreachable"
    ELSE IF isLoading THEN "Spinner"
    ELSE "ScrollPanel"

componentDidMount ==
    /\ ~mounted
    /\ mounted' = TRUE
    /\ loadMoreEdits(FALSE)
    /\ UNCHANGED room
    /\ UNCHANGED cvars

\* the scroll panel, while rendered, asks for more edits in either direction;
\* the dialog puts no condition on when the panel may ask, so it may ask at
\* any time
onFillRequest ==
    /\ mounted
    /\ render = "ScrollPanel"
    /\ \E backwards \in BOOLEAN : loadMoreEdits(backwards)
    /\ UNCHANGED <<mounted, room>>
    /\ UNCHANGED cvars

RelationsResponse ==
    /\ \E from \in FromValues, page \in Pages, batch \in ResponseTokens,
          orig \in {0, OriginalEventId} :
         RelationsResolved(from, [events |-> page, originalEvent |-> orig, nextBatch |-> batch])
    /\ UNCHANGED cvars

RelationsFailure ==
    /\ \E from \in FromValues, err \in Errors : RelationsRejected(from, err)
    /\ UNCHANGED cvars

\* the user redacts an event, or sends a message, that is not yet sent
PendingEventQueued ==
    /\ room.found
    /\ Len(room.pendingEvents) < MaxPending
    /\ \E pe \in PendingEvents :
         /\ \A i \in 1..Len(room.pendingEvents) : room.pendingEvents[i] # pe
         /\ room' = Room(Append(room.pendingEvents, pe))
    /\ UNCHANGED <<dstate, mounted, inflight, issued, last>>
    /\ UNCHANGED cvars

\* the oldest pending event is sent and leaves the pending list
PendingEventSent ==
    /\ room.found
    /\ room.pendingEvents # <<>>
    /\ room' = Room(Tail(room.pendingEvents))
    /\ UNCHANGED <<dstate, mounted, inflight, issued, last>>
    /\ UNCHANGED cvars

DialogNext ==
    \/ componentDidMount
    \/ onFillRequest
    \/ RelationsResponse
    \/ RelationsFailure
    \/ PendingEventQueued
    \/ PendingEventSent


(***************************************************************************)
(* usePlainTextListeners                                                   *)
(*                                                                         *)
(* Strings are sequences of characters.  The editor's innerHTML is what a  *)
(* browser serialises: element tags, and text in which "<", ">" and "&"    *)
(* appear as the character references &lt; &gt; &amp;.                     *)
(***************************************************************************)
\* pieces of markup an edit adds to the editor
MaxPieces == 2

Str_a == <<"a">>
Str_div == <<"<", "d", "i", "v", ">">>
Str_divEnd == <<"<", "/", "d", "i", "v", ">">>
Str_br == <<"<", "b", "r", ">">>
Str_lt == <<"&", "l", "t", ";">>
Str_gt == <<"&", "g", "t", ";">>
Str_amp == <<"&", "a", "m", "p", ";">>
Str_newline == <<"\n">>
Str_empty == <<>>

\* what one edit of the user appends to the editor's innerHTML: a letter,
\* Enter (an editable div holding a <br>), the start and the end of a
\* paragraph div, and a literal "<div>" typed as text
Str_enter == Str_div \o Str_br \o Str_divEnd
Str_typedDiv == Str_lt \o <<"d", "i", "v">> \o Str_gt
Pieces == {Str_a, Str_enter, Str_div, Str_divEnd, Str_typedDiv}

\* the arguments setContent is called with by the suggestion hook
SetTextArgs == {Str_empty, Str_a}

\* JavaScript undefined where a string is expected
UndefinedText == <<Undefined>>

\* the characters of a sequence of pieces
RECURSIVE Flatten(_)
Flatten(pieces) == IF pieces = <<>> THEN <<>> ELSE Head(pieces) \o Flatten(Tail(pieces))

StartsWith(s, prefix) ==
    Len(s) >= Len(prefix) /\ SubSeq(s, 1, Len(prefix)) = prefix

Drop(s, n) == SubSeq(s, n + 1, Len(s))

\* String.prototype.replace with a global literal pattern
RECURSIVE ReplaceAll(_, _, _)
ReplaceAll(s, pattern, replacement) ==
    IF s = <<>> THEN <<>>
    ELSE IF StartsWith(s, pattern)
         THEN replacement \o ReplaceAll(Drop(s, Len(pattern)), pattern, replacement)
         ELSE <<Head(s)>> \o ReplaceAll(Tail(s), pattern, replacement)

\* decodeHtml: the value of a textarea whose innerHTML is html, i.e. html
\* with its character references replaced, in one pass, by their characters
RECURSIVE decodeHtml(_)
decodeHtml(html) ==
    IF html = <<>> THEN <<>>
    ELSE IF StartsWith(html, Str_lt) THEN <<"<">> \o decodeHtml(Drop(html, Len(Str_lt)))
    ELSE IF StartsWith(html, Str_gt) THEN <<">">> \o decodeHtml(Drop(html, Len(Str_gt)))
    ELSE IF StartsWith(html, Str_amp) THEN <<"&">> \o decodeHtml(Drop(html, Len(Str_amp)))
    ELSE <<Head(html)>> \o decodeHtml(Tail(html))

\* amendInnerHtml replacing the divs before the <div><br></div> pattern
amendInnerHtmlDivFirst(text) ==
    ReplaceAll(
        ReplaceAll(
            ReplaceAll(decodeHtml(text), Str_div, Str_newline),
            Str_div \o Str_br \o Str_divEnd, Str_newline),
        Str_divEnd, Str_empty)

amendInnerHtml(text) ==
    ReplaceAll(
        ReplaceAll(
            ReplaceAll(decodeHtml(text), Str_div \o Str_br \o Str_divEnd, Str_newline),
            Str_div, Str_newline),
        Str_divEnd, Str_empty)

\* ref.current.innerHTML, event.target.innerHTML
innerHTML == Flatten(editor)

\* ref.current is the editor div: the caller attaches ref to it (the hook's
\* contract), and the handlers run on events of that div
refAttached == TRUE

enterShouldSend == ~ctrlEnterToSend

ENTER == "Enter"
Keys == {ENTER, "a"}

\* the key-down events of the editor, each with the answer of the
\* autocomplete collaborator to it
KeyDownEvents ==
    [key : Keys, shiftKey : BOOLEAN, metaKey : BOOLEAN, ctrlKey : BOOLEAN,
     handledByAutocomplete : BOOLEAN]

\* setText: commits the text given, or the editor's innerHTML when none is
\* given, to the content state and to onChange
setText(text) ==
    IF text # UndefinedText
    THEN /\ content' = text
         /\ onChangeCalls' = IF hasOnChange THEN <<text>> ELSE <<>>
    ELSE IF refAttached
    THEN /\ content' = innerHTML'
         /\ onChangeCalls' = IF hasOnChange THEN <<innerHTML'>> ELSE <<>>
    ELSE /\ content' = content
         /\ onChangeCalls' = <<>>

\* the body of onInput for an event whose target has this innerHTML
onInputHandler(isDivElement, targetInnerHTML) ==
    IF isDivElement
    THEN LET newInnerHTML == IF enterShouldSend THEN targetInnerHTML
                             ELSE amendInnerHtml(targetInnerHTML)
         IN  setText(newInnerHTML)
    ELSE /\ content' = content
         /\ onChangeCalls' = <<>>

\* an edit of the user adds a piece to the editor div, whose input event
\* runs onInput
onInput ==
    /\ Len(editor) < MaxPieces
    /\ \E piece \in Pieces : editor' = Append(editor, piece)
    /\ onInputHandler(TRUE, innerHTML')
    /\ onSendCalls' = 0
    /\ clast' = [op |-> "onInput", isDivElement |-> TRUE]
    /\ UNCHANGED <<ctrlEnterToSend, IS_MAC, hasOnChange, hasOnSend>>
    /\ UNCHANGED dvars

\* onPaste is onInput; the paste event comes before the editor changes, and
\* its target is the editor div or an element inside it
onPaste ==
    /\ \E isDivElement \in BOOLEAN :
         /\ onInputHandler(isDivElement, innerHTML)
         /\ clast' = [op |-> "onPaste", isDivElement |-> isDivElement]
    /\ onSendCalls' = 0
    /\ UNCHANGED <<editor, ctrlEnterToSend, IS_MAC, hasOnChange, hasOnSend>>
    /\ UNCHANGED dvars

\* handleEventWithAutocomplete(autocompleteRef, event)
handleEventWithAutocomplete(event) == event.handledByAutocomplete

\* sendsOnKeyDown with the second test not excluding 'enter sends'
sendsOnKeyDownModifierAlways(event) ==
    IF handleEventWithAutocomplete(event) THEN 0
    ELSE IF event.key = ENTER
    THEN LET sendModifierIsPressed == IF IS_MAC THEN event.metaKey ELSE event.ctrlKey
         IN  (IF enterShouldSend /\ ~event.shiftKey THEN 1 ELSE 0)
             + (IF sendModifierIsPressed THEN 1 ELSE 0)
    ELSE 0

\* the number of times onKeyDown runs send for this event
sendsOnKeyDown(event) ==
    IF handleEventWithAutocomplete(event) THEN 0
    ELSE IF event.key = ENTER
    THEN LET sendModifierIsPressed == IF IS_MAC THEN event.metaKey ELSE event.ctrlKey
         IN  (IF enterShouldSend /\ ~event.shiftKey THEN 1 ELSE 0)
             + (IF ~enterShouldSend /\ sendModifierIsPressed THEN 1 ELSE 0)
    ELSE 0

\* send that also commits the emptied content through setText
sendClearingContent(n) ==
    /\ editor' = IF n > 0 /\ refAttached THEN <<>> ELSE editor
    /\ content' = IF n > 0 THEN Str_empty ELSE content
    /\ onChangeCalls' = IF n > 0 /\ hasOnChange THEN <<Str_empty>> ELSE <<>>
    /\ onSendCalls' = IF hasOnSend THEN n ELSE 0

\* send, run n times by a handler: empties the editor div and calls onSend
send(n) ==
    /\ editor' = IF n > 0 /\ refAttached THEN <<>> ELSE editor
    /\ content' = content
    /\ onChangeCalls' = <<>>
    /\ onSendCalls' = IF hasOnSend THEN n ELSE 0

onKeyDown ==
    /\ \E event \in KeyDownEvents :
         /\ send(sendsOnKeyDown(event))
         /\ clast' = [op |-> "onKeyDown", event |-> event, sends |-> sendsOnKeyDown(event)]
    /\ UNCHANGED <<ctrlEnterToSend, IS_MAC, hasOnChange, hasOnSend>>
    /\ UNCHANGED dvars

\* setContent, as the suggestion hook and the composer's owner call it
setContent ==
    /\ \E text \in SetTextArgs \cup {UndefinedText} :
         /\ editor' = editor
         /\ setText(text)
         /\ clast' = [op |-> "setContent", text |-> text]
    /\ onSendCalls' = 0
    /\ UNCHANGED <<ctrlEnterToSend, IS_MAC, hasOnChange, hasOnSend>>
    /\ UNCHANGED dvars

\* the user changes the setting; the hook reads it at its next render
SettingChanged ==
    /\ ctrlEnterToSend' = ~ctrlEnterToSend
    /\ UNCHANGED <<editor, content, IS_MAC, hasOnChange, hasOnSend, onChangeCalls,
                   onSendCalls, clast>>
    /\ UNCHANGED dvars

ComposerNext ==
    \/ onInput
    \/ onPaste
    \/ onKeyDown
    \/ setContent
    \/ SettingChanged

vars == <<dvars, cvars>>

\* a dialog just constructed (and no composer mounted)
DialogInit ==
    /\ originalEvent = 0
    /\ error = NoError
    /\ events = <<>>
    /\ nextBatch = Null
    /\ isLoading = TRUE
    /\ mounted = FALSE
    /\ inflight = [f \in FromValues |-> 0]
    /\ issued = 0
    /\ room \in {NoRoom, Room(<<>>)}
    /\ last = [op |-> "constructor"]
    /\ editor = <<>>
    /\ content = UndefinedText
    /\ ctrlEnterToSend = FALSE
    /\ IS_MAC = FALSE
    /\ hasOnChange = FALSE
    /\ hasOnSend = FALSE
    /\ onChangeCalls = <<>>
    /\ onSendCalls = 0
    /\ clast = [op |-> "none"]

\* a composer just mounted, with or without initialContent (and no dialog
\* open)
ComposerInit ==
    /\ editor = <<>>
    /\ content \in {UndefinedText, Str_a}
    /\ ctrlEnterToSend \in BOOLEAN
    /\ IS_MAC \in BOOLEAN
    /\ hasOnChange \in BOOLEAN
    /\ hasOnSend \in BOOLEAN
    /\ onChangeCalls = <<>>
    /\ onSendCalls = 0
    /\ clast = [op |-> "mount"]
    /\ originalEvent = 0
    /\ error = NoError
    /\ events = <<>>
    /\ nextBatch = Null
    /\ isLoading = TRUE
    /\ mounted = FALSE
    /\ inflight = [f \in FromValues |-> 0]
    /\ issued = 0
    /\ room = NoRoom
    /\ last = [op |-> "none"]

DialogSpec == DialogInit /\ [][DialogNext]_vars

ComposerSpec == ComposerInit /\ [][ComposerNext]_vars

(***************************************************************************)
(* Properties of MessageEditHistoryDialog (checked under DialogSpec).      *)
(***************************************************************************)
\* a step of the named handler (the room does not change in a handler)
DialogStep(op) == last'.op = op /\ room' = room

\* C1 (as claimed): at most one relations request is in flight at any time,
\* whatever the interleaving of the mount-time call and fill requests.
C1_AtMostOneInFlight == InFlightCount <= 1

\* C1 (amended): while the first page is loading (isLoading) at most one
\* relations request is in flight, and it is the mount-time request.
C1_OneInFlightWhileLoading ==
    isLoading => (InFlightCount <= 1 /\ issued <= 1 /\ inflight[Undefined] = InFlightCount)

C1_Witness == isLoading /\ mounted /\ InFlightCount = 1

\* C2: once the only request issued so far has been answered with
\* nextBatch = null, every later loadMoreEdits call returns false and the
\* number of relations requests stays 1.
C2_ExhaustedAfterNull ==
    [][(issued = 1 /\ InFlightCount = 0 /\ ~isLoading /\ nextBatch = Null)
         => /\ issued' = 1
            /\ InFlightCount' = 0
            /\ ~isLoading'
            /\ nextBatch' = Null
            /\ (DialogStep("loadMoreEdits") => last'.ret = "false")]_dvars

C2_Witness ==
    /\ issued = 1 /\ InFlightCount = 0 /\ ~isLoading /\ nextBatch = Null
    /\ last.op = "loadMoreEdits" /\ last.ret = "false" /\ ~last.backwards

\* what a loadMoreEdits call does when it bails out, and when it fetches
ReturnsFalseUntouched ==
    /\ last'.ret = "false"
    /\ UNCHANGED <<events, nextBatch, originalEvent, isLoading, error, inflight, issued>>

FetchesFromCursor ==
    /\ last'.ret = "pending"
    /\ last'.from = (IF nextBatch = Null THEN Undefined ELSE nextBatch)
    /\ issued' = issued + 1
    /\ inflight' = [inflight EXCEPT ![last'.from] = @ + 1]
    /\ UNCHANGED <<events, nextBatch, originalEvent, isLoading, error>>

\* C3 (as claimed): a call returns false, touching nothing, when backwards is
\* requested or when the cursor is null and nothing is loading; in every other
\* state it issues a fetch from the current cursor.
C3_BailOutOnNull ==
    [][DialogStep("loadMoreEdits") =>
         IF last'.backwards \/ (nextBatch = Null /\ ~isLoading)
         THEN ReturnsFalseUntouched
         ELSE FetchesFromCursor]_dvars

\* C3 (amended): the same, with "the cursor is null or the empty string".
C3_BailOutOnFalsy ==
    [][DialogStep("loadMoreEdits") =>
         IF last'.backwards \/ (nextBatch \in {Null, ""} /\ ~isLoading)
         THEN ReturnsFalseUntouched
         ELSE FetchesFromCursor]_dvars

C3_Witness ==
    /\ last.op = "loadMoreEdits" /\ last.ret = "pending" /\ last.from = "t1"
    /\ ~isLoading /\ nextBatch = "t1"

\* the dialog state after a page has been merged, the resolved value aside
MergedPage ==
    LET page == last'.result.events
        n == Len(events)
    IN  /\ Len(events') = n + Len(page)
        /\ SubSeq(events', 1, n) = events
        /\ \A i \in 1..Len(page) : events'[n + i].id = page[i].id
        /\ nextBatch' = (IF last'.result.nextBatch = Undefined THEN Null
                         ELSE last'.result.nextBatch)
        /\ ~isLoading'

\* C4 (as claimed): a successful fetch appends the page to the event list,
\* stores the response's nextBatch (null if absent), ends loading, and
\* resolves the promise with true exactly when the stored cursor is non-null.
C4_ResolvesNonNull ==
    [][DialogStep("resolved") =>
         (MergedPage /\ (last'.value <=> nextBatch' # Null))]_dvars

\* C4 (amended): ... resolves the promise with true exactly when the stored
\* cursor is neither null nor the empty string.
C4_ResolvesTruthy ==
    [][DialogStep("resolved") =>
         (MergedPage /\ (last'.value <=> nextBatch' \notin {Null, ""}))]_dvars

C4_Witness ==
    /\ last.op = "resolved" /\ last.value /\ nextBatch = "t1"
    /\ Len(events) = 2 /\ Len(last.result.events) = 1

\* C5: a failed fetch stores the error and rejects the promise with it,
\* leaves events, nextBatch, originalEvent and isLoading alone and issues
\* no request.
C5_FailureStoresError ==
    [][DialogStep("rejected") =>
         /\ error' = last'.thrown
         /\ last'.reason = last'.thrown
         /\ UNCHANGED <<events, nextBatch, originalEvent, isLoading, issued>>
         /\ InFlightCount' = InFlightCount - 1]_dvars

C5_Witness ==
    /\ last.op = "rejected" /\ error = last.thrown /\ error # NoError
    /\ isLoading /\ InFlightCount = 0

\* the message the claim expects for a stored error
ExpectedMessage(e) ==
    CASE e.errcode = "M_UNRECOGNIZED" -> "unsupported"
      [] e.errcode = Undefined -> "unreachable"
      [] OTHER -> "generic"

\* C6: a stored error is never cleared; while one is stored the dialog shows
\* its message (not the spinner, not the scroll panel) and issues no request.
C6_ErrorIsFinal ==
    [][/\ error # NoError => (error' # NoError /\ issued' = issued)
       /\ error' # NoError => render' = ExpectedMessage(error')]_dvars

C6_Witness ==
    /\ error # NoError /\ error.errcode = M_UNKNOWN /\ isLoading
    /\ render = "generic"

\* the pending redactions of the room that target the event with this id
PendingRedactionsOf(id) ==
    IF room.found
    THEN {room.pendingEvents[j] : j \in {k \in 1..Len(room.pendingEvents) :
              /\ room.pendingEvents[k].type = RoomRedaction
              /\ room.pendingEvents[k].assoc = id}}
    ELSE {}

\* C7: merging a page marks each of its events that a pending redaction of
\* the room targets with that redaction, marks no other event of the page,
\* and leaves the events merged earlier as they were.
C7_PendingRedactionsMarked ==
    [][DialogStep("resolved") =>
         LET page == last'.result.events
             n == Len(events)
         IN  /\ Len(events') = n + Len(page)
             /\ SubSeq(events', 1, n) = events
             /\ \A i \in 1..Len(page) :
                  IF PendingRedactionsOf(page[i].id) = {}
                  THEN events'[n + i].redactedBy = NotRedacted
                  ELSE events'[n + i].redactedBy \in PendingRedactionsOf(page[i].id)]_dvars

C7_Witness ==
    /\ last.op = "resolved" /\ Len(events) = 2 /\ Len(last.result.events) = 1
    /\ events[1].id = events[2].id
    /\ events[1].redactedBy = NotRedacted
    /\ events[2].redactedBy \in PendingRedactionsOf(events[2].id)

(***************************************************************************)
(* Properties of usePlainTextListeners (checked under ComposerSpec).       *)
(***************************************************************************)
\* a step of the named handler (a handler does not change the setting)
ComposerStep(op) == clast'.op = op /\ ctrlEnterToSend' = ctrlEnterToSend

\* the key-down events the claim says send
SendExpected(event) ==
    /\ ~event.handledByAutocomplete
    /\ event.key = "Enter"
    /\ \/ ~ctrlEnterToSend /\ ~event.shiftKey
       \/ ctrlEnterToSend /\ IS_MAC /\ event.metaKey
       \/ ctrlEnterToSend /\ ~IS_MAC /\ event.ctrlKey

\* C8: a key-down runs send once when autocomplete did not handle it, the key
\* is Enter and the configuration's modifier rule is met, and never otherwise.
C8_SendExactlyWhenExpected ==
    [][ComposerStep("onKeyDown") =>
         clast'.sends = (IF SendExpected(clast'.event) THEN 1 ELSE 0)]_vars

C8_Witness ==
    /\ clast.op = "onKeyDown" /\ clast.sends = 1
    /\ ctrlEnterToSend /\ IS_MAC /\ clast.event.metaKey /\ ~clast.event.ctrlKey
    /\ clast.event.shiftKey

RECURSIVE DivsToNewlines(_)
DivsToNewlines(s) ==
    IF s = <<>> THEN <<>>
    ELSE IF StartsWith(s, Str_enter) THEN <<"\n">> \o DivsToNewlines(Drop(s, 15))
    ELSE IF StartsWith(s, Str_div) THEN <<"\n">> \o DivsToNewlines(Drop(s, 5))
    ELSE IF StartsWith(s, Str_divEnd) THEN DivsToNewlines(Drop(s, 6))
    ELSE <<Head(s)>> \o DivsToNewlines(Tail(s))

\* an input or paste step whose target is the editor div
CommitStep ==
    /\ ComposerStep("onInput") \/ ComposerStep("onPaste")
    /\ clast'.isDivElement

\* C10 (as claimed): the content committed by an input or paste event is the
\* raw markup when 'enter sends' is enabled, and otherwise the markup with its
\* paragraph divs turned into newlines; onChange gets the same value.
C10_CommitsNormalisedMarkup ==
    [][CommitStep =>
         /\ content' = (IF ~ctrlEnterToSend THEN innerHTML'
                        ELSE DivsToNewlines(innerHTML'))
         /\ hasOnChange => onChangeCalls' = <<content'>>]_vars

\* C10 (amended): ... and otherwise the markup with its character references
\* decoded and then its paragraph divs turned into newlines.
C10_CommitsDecodedNormalisedMarkup ==
    [][CommitStep =>
         /\ content' = (IF ~ctrlEnterToSend THEN innerHTML'
                        ELSE DivsToNewlines(decodeHtml(innerHTML')))
         /\ hasOnChange => onChangeCalls' = <<content'>>]_vars

C10_Witness ==
    /\ clast.op = "onInput" /\ ctrlEnterToSend /\ hasOnChange
    /\ editor = <<Str_typedDiv, Str_enter>>
    /\ content = <<"\n", "\n">>
    /\ onChangeCalls = <<content>>

====
